---- MODULE Spec2Model ----
(***************************************************************************)
(* Credit simulator: the amortization engine (LoanSimulator), the batch    *)
(* dispatcher (simulate_batch_parallel / simulate_batch_chunked_parallel)  *)
(* and the two HTTP handlers that call them.                               *)
(*                                                                         *)
(* Units.  Python floats are modelled by exact rationals:                  *)
(*   - a loan value is an integer number of thousandths of a currency     *)
(*     unit ("mills"), so 1.005 is 1005;                                   *)
(*   - an annual interest rate is an integer number of percent, so 0.05   *)
(*     is 5;                                                               *)
(*   - an unrounded amount is a fraction [n, d] of mills;                  *)
(*   - round(x, 2) yields an integer number of cents.                      *)
(* Dates are records [year, month, day]; a date string is a record that    *)
(* keeps its layout (fmt) next to the digits it carries.                   *)
(***************************************************************************)
EXTENDS Integers, Sequences, FiniteSets, TLC

\* ------------------------------------------------------------------------
\* Bounds of the model
\* ------------------------------------------------------------------------

\* number of pool tasks that may be in progress at the same time
MaxInFlight == 2

\* ------------------------------------------------------------------------
\* Calendar (datetime)
\* ------------------------------------------------------------------------

IsLeap(y) == (y % 4 = 0 /\ y % 100 # 0) \/ y % 400 = 0

DaysInMonth(m, y) ==
    IF m = 2 THEN (IF IsLeap(y) THEN 29 ELSE 28)
    ELSE IF m \in {4, 6, 9, 11} THEN 30 ELSE 31

Date(y, m, d) == [year |-> y, month |-> m, day |-> d]

NextDay(t) ==
    IF t.day < DaysInMonth(t.month, t.year) THEN Date(t.year, t.month, t.day + 1)
    ELSE IF t.month < 12 THEN Date(t.year, t.month + 1, 1)
    ELSE Date(t.year + 1, 1, 1)

\* the date string "DD-MM-YYYY" and the other layouts a client may send
DateStr(f, d, m, y) == [fmt |-> f, d |-> d, m |-> m, y |-> y]

ValueError == [exc |-> "ValueError"]
ZeroDivisionError == [exc |-> "ZeroDivisionError"]
OverflowError == [exc |-> "OverflowError"]

\* the largest integer that converts to a float (sys.float_info.max, about
\* 1.8 * 10^308), scaled down to the integers of the model: every term the
\* model computes with is far below it, and one payload carries a term above
FloatMax == 1000

IsExc(x) == "exc" \in DOMAIN x

\* datetime.strptime(s, "%d-%m-%Y"): the layout must be day-month-year (one
\* or two digits for day and month) and the digits a date of the calendar
Strptime(s) ==
    IF /\ s.fmt \in {"DD-MM-YYYY", "D-M-YYYY"}
       /\ s.y >= 1 /\ s.y <= 9999
       /\ s.m >= 1 /\ s.m <= 12
       /\ s.d >= 1 /\ s.d <= DaysInMonth(s.m, s.y)
    THEN Date(s.y, s.m, s.d)
    ELSE ValueError

\* ------------------------------------------------------------------------
\* Amortization engine (LoanSimulator)
\* ------------------------------------------------------------------------

\* INTEREST_RATE_TIERS, in iteration order; rates in percent
INTEREST_RATE_TIERS ==
    << [min_age |-> 0,  max_age |-> 25,  rate |-> 5],
       [min_age |-> 26, max_age |-> 40,  rate |-> 3],
       [min_age |-> 41, max_age |-> 60,  rate |-> 2],
       [min_age |-> 61, max_age |-> 999, rate |-> 4] >>

\* LoanSimulator.INTEREST_RATE_TIERS as the process holds it: a class
\* attribute, a dict any code of the process could assign to
VARIABLE tiers

\* calculate_age with the birthday itself counted as not yet reached
calculate_age_late(today, birth_date) ==
    LET age == today.year - birth_date.year
    IN  IF \/ today.month < birth_date.month
           \/ (today.month = birth_date.month /\ today.day <= birth_date.day)
        THEN age - 1
        ELSE age

\* calculate_age(birth_date), with today = datetime.now()
calculate_age(today, birth_date) ==
    LET age == today.year - birth_date.year
    IN  IF \/ today.month < birth_date.month
           \/ (today.month = birth_date.month /\ today.day < birth_date.day)
        THEN age - 1
        ELSE age

RECURSIVE TierScan(_, _)
TierScan(k, age) ==
    IF k > Len(tiers) THEN 4
    ELSE IF tiers[k].min_age <= age /\ age <= tiers[k].max_age
         THEN tiers[k].rate
         ELSE TierScan(k + 1, age)

\* the lookup with the upper end of every band left out
get_interest_rate_by_age_open(age) ==
    IF \E k \in 1..Len(tiers) :
          tiers[k].min_age <= age /\ age < tiers[k].max_age
    THEN TierScan(1, age)
    ELSE 4

\* a lookup that takes an age below the bands for the lowest age and an age
\* above them for the highest
get_interest_rate_by_age_clamped(age) ==
    TierScan(1, IF age < 0 THEN 0 ELSE IF age > 999 THEN 999 ELSE age)

\* get_interest_rate_by_age(age): the first band that holds age, else 0.04
get_interest_rate_by_age(age) == TierScan(1, age)

\* the selection with every threshold one too low
get_optimal_processing_strategy_strict(batch_size) ==
    IF batch_size < 20 THEN "sequential"
    ELSE IF batch_size < 100 THEN "parallel_small"
    ELSE IF batch_size < 500 THEN "parallel_medium"
    ELSE "parallel_chunked"

\* get_optimal_processing_strategy(batch_size)
get_optimal_processing_strategy(batch_size) ==
    IF batch_size <= 20 THEN "sequential"
    ELSE IF batch_size <= 100 THEN "parallel_small"
    ELSE IF batch_size <= 500 THEN "parallel_medium"
    ELSE "parallel_chunked"

\* ------------------------------------------------------------------------
\* Exact arithmetic standing for Python floats
\* ------------------------------------------------------------------------

RECURSIVE GCD(_, _)
GCD(a, b) == IF b = 0 THEN a ELSE GCD(b, a % b)

Abs(x) == IF x < 0 THEN -x ELSE x

RECURSIVE Pow(_, _)
Pow(b, e) == IF e = 0 THEN 1 ELSE b * Pow(b, e - 1)

\* the fraction n/d, kept with a positive denominator
Frac(n, d) == IF d < 0 THEN [n |-> -n, d |-> -d] ELSE [n |-> n, d |-> d]

\* a rounding that cuts the amount after the second decimal
Round2_down(f) == f.n \div (10 * f.d)

\* round(x, 2) of an amount x = f.n / f.d mills: the nearest number of cents,
\* a tie going to the even neighbour
Round2(f) ==
    LET den == 10 * f.d
        q   == f.n \div den
        r   == f.n % den
    IN  IF 2 * r < den THEN q
        ELSE IF 2 * r > den THEN q + 1
        ELSE IF q % 2 = 0 THEN q ELSE q + 1

\* calculate_monthly_fee without the branch for a zero rate: the quotient of
\* the formula is evaluated whatever the rate
calculate_monthly_fee_quotient_first(loan_value, rate, payment_deadline_months) ==
    LET g  == GCD(Abs(rate), 1200)
        rn == rate \div g
        rd == 1200 \div g
        up == Pow(rd + rn, Abs(payment_deadline_months))
        dn == Pow(rd, Abs(payment_deadline_months))
    IN  IF up - dn = 0 THEN ZeroDivisionError
        ELSE Frac(loan_value * rn * up, rd * (up - dn))

\* calculate_monthly_fee with simple interest: the principal and the interest
\* of payment_deadline_months months on it, in equal parts
calculate_monthly_fee_simple(loan_value, rate, payment_deadline_months) ==
    IF payment_deadline_months = 0 THEN ZeroDivisionError
    ELSE Frac(loan_value * (1200 + rate * payment_deadline_months),
              1200 * payment_deadline_months)

\* calculate_monthly_fee(loan_value, annual_interest_rate, payment_deadline_months)
\* loan_value in mills, annual_interest_rate in percent; the result is a
\* fraction of mills or the exception the division raises
calculate_monthly_fee(loan_value, annual_interest_rate, payment_deadline_months) ==
    LET g  == GCD(Abs(annual_interest_rate), 1200)
        rn == annual_interest_rate \div g          \* monthly_rate = rn / rd
        rd == 1200 \div g
        m  == Abs(payment_deadline_months)
        up == Pow(rd + rn, m)                       \* (1 + monthly_rate)^m = up / dn
        dn == Pow(rd, m)
    IN  IF Abs(payment_deadline_months) > FloatMax
        THEN \* the division and the power convert the integer to a float
             OverflowError
        ELSE IF rn = 0
        THEN IF payment_deadline_months = 0 THEN ZeroDivisionError
             ELSE Frac(loan_value, payment_deadline_months)
        ELSE IF payment_deadline_months >= 0
             THEN \* denominator = 1 - dn/up = (up - dn) / up
                  IF up - dn = 0 THEN ZeroDivisionError
                  ELSE Frac(loan_value * rn * up, rd * (up - dn))
             ELSE \* denominator = 1 - up/dn = (dn - up) / dn
                  IF dn - up = 0 THEN ZeroDivisionError
                  ELSE Frac(loan_value * rn * dn, rd * (dn - up))

\* calculate_total_value_to_pay(monthly_payment, payment_deadline_months)
calculate_total_value_to_pay(monthly_payment, payment_deadline_months) ==
    Frac(monthly_payment.n * payment_deadline_months, monthly_payment.d)

\* total_value_to_pay - loan_value, on the unrounded total
Interest(total_value_to_pay, loan_value) ==
    Frac(total_value_to_pay.n - loan_value * total_value_to_pay.d, total_value_to_pay.d)

\* a simulate_loan that takes total_interest from the rounded total
simulate_loan_rounded_first(today, loan_value, birth_date, payment_deadline_months) ==
    LET age == calculate_age(today, birth_date)
        annual_interest_rate == get_interest_rate_by_age(age)
        monthly_payment ==
            calculate_monthly_fee(loan_value, annual_interest_rate, payment_deadline_months)
        total_value_to_pay ==
            calculate_total_value_to_pay(monthly_payment, payment_deadline_months)
        total_interest == Frac(10 * Round2(total_value_to_pay) - loan_value, 1)
    IN  IF IsExc(monthly_payment) THEN monthly_payment
        ELSE [ loan_value |-> loan_value,
               customer_age |-> age,
               annual_interest_rate |-> annual_interest_rate,
               monthly_payment |-> Round2(monthly_payment),
               total_value_to_pay |-> Round2(total_value_to_pay),
               total_interest |-> Round2(total_interest),
               payment_deadline_months |-> payment_deadline_months ]

\* a local variable: the value assigned to it, computed once at the
\* assignment, as the only element of the set S
Assigned(S) == CHOOSE x \in S : TRUE

\* a simulate_loan that rounds the loan value it returns like the three
\* amounts it computed
simulate_loan_rounded_value(today, loan_value, birth_date, payment_deadline_months) ==
    Assigned({ Assigned({ Assigned({
        IF IsExc(monthly_payment) THEN monthly_payment ELSE
        Assigned({ Assigned({
            [ loan_value |-> 10 * Round2(Frac(loan_value, 1)),
              customer_age |-> age,
              annual_interest_rate |-> annual_interest_rate,
              monthly_payment |-> Round2(monthly_payment),
              total_value_to_pay |-> Round2(total_value_to_pay),
              total_interest |-> Round2(total_interest),
              payment_deadline_months |-> payment_deadline_months ]
          : total_interest \in { Interest(total_value_to_pay, loan_value) } })
          : total_value_to_pay \in
              { calculate_total_value_to_pay(monthly_payment,
                                             payment_deadline_months) } })
      : monthly_payment \in
          { calculate_monthly_fee(loan_value, annual_interest_rate,
                                  payment_deadline_months) } })
      : annual_interest_rate \in { get_interest_rate_by_age(age) } })
      : age \in { calculate_age(today, birth_date) } })

\* simulate_loan(loan_value, birth_date, payment_deadline_months) evaluated
\* while datetime.now() is today; the assignments read from the last line up
simulate_loan(today, loan_value, birth_date, payment_deadline_months) ==
    Assigned({ Assigned({ Assigned({
        IF IsExc(monthly_payment) THEN monthly_payment ELSE
        Assigned({ Assigned({
            [ loan_value |-> loan_value,
              customer_age |-> age,
              annual_interest_rate |-> annual_interest_rate,
              monthly_payment |-> Round2(monthly_payment),
              total_value_to_pay |-> Round2(total_value_to_pay),
              total_interest |-> Round2(total_interest),
              payment_deadline_months |-> payment_deadline_months ]
          : total_interest \in { Interest(total_value_to_pay, loan_value) } })
          : total_value_to_pay \in
              { calculate_total_value_to_pay(monthly_payment,
                                             payment_deadline_months) } })
      : monthly_payment \in
          { calculate_monthly_fee(loan_value, annual_interest_rate,
                                  payment_deadline_months) } })
      : annual_interest_rate \in { get_interest_rate_by_age(age) } })
      : age \in { calculate_age(today, birth_date) } })

\* _process_single_simulation(simulation_data)
process_single_simulation(today, simulation_data) ==
    Assigned({ Assigned({
        IF IsExc(birth_date) THEN birth_date
        ELSE simulate_loan(today, data.value, birth_date, data.payment_deadline)
      : birth_date \in { Strptime(data.date_of_birth) } })
      : data \in { simulation_data } })

\* ------------------------------------------------------------------------
\* Request payloads (JSON) and their validation
\* ------------------------------------------------------------------------

\* JSON values of a payload field
Missing  == [t |-> "missing"]
JNum(v)  == [t |-> "number", v |-> v]      \* a number with a fraction, in mills
JInt(v)  == [t |-> "integer", v |-> v]     \* an integer
JStr(s)  == [t |-> "string", s |-> s]      \* a string, s a date string record

\* the birth dates of the generated requests; the first one has its
\* birthday on the day after StartDate and changes tier there (25 -> 26)
BirthDates ==
    << DateStr("DD-MM-YYYY", 1, 3, 1998),
       DateStr("DD-MM-YYYY", 15, 6, 1990),
       DateStr("DD-MM-YYYY", 20, 3, 1955),
       DateStr("DD-MM-YYYY", 10, 12, 1975) >>

\* item j of a generated batch of n well-formed items: distinct values, the
\* first and the last item share the birth date BirthDates[1]
GoodItem(n, j) ==
    [ value |-> JNum(1000 + j),
      date_of_birth |->
          JStr(IF j = 1 \/ j = n THEN BirthDates[1] ELSE BirthDates[2 + (j % 3)]),
      payment_deadline |-> JInt(1 + (j % 2)) ]

\* the ways one item of a payload can be malformed
Defects ==
    { "value_missing", "value_zero", "value_negative", "value_string", "value_tiny",
      "deadline_missing", "deadline_zero", "deadline_negative", "deadline_float",
      "deadline_string", "date_missing", "date_iso", "date_text", "date_day32",
      "date_feb29", "date_year0", "date_short" }

\* the ways a well-formed item can differ from the generated one; a further
\* one, "deadline_huge", is a term that no float holds
Variants == { "birth_1955", "deadline_one" }

Damage(item, defect) ==
    CASE defect = "value_missing"     -> [item EXCEPT !.value = Missing]
      [] defect = "value_zero"        -> [item EXCEPT !.value = JNum(0)]
      [] defect = "value_negative"    -> [item EXCEPT !.value = JNum(-1000)]
      [] defect = "value_string"      -> [item EXCEPT !.value = JStr("50000")]
      [] defect = "value_tiny"        -> [item EXCEPT !.value = JNum(5)]
      [] defect = "deadline_missing"  -> [item EXCEPT !.payment_deadline = Missing]
      [] defect = "deadline_zero"     -> [item EXCEPT !.payment_deadline = JInt(0)]
      [] defect = "deadline_negative" -> [item EXCEPT !.payment_deadline = JInt(-2)]
      [] defect = "deadline_float"    -> [item EXCEPT !.payment_deadline = JNum(24500)]
      [] defect = "deadline_string"   -> [item EXCEPT !.payment_deadline = JStr("24")]
      [] defect = "date_missing"      -> [item EXCEPT !.date_of_birth = Missing]
      [] defect = "date_iso"          ->
            [item EXCEPT !.date_of_birth = JStr(DateStr("YYYY-MM-DD", 15, 6, 1990))]
      [] defect = "date_text"         ->
            [item EXCEPT !.date_of_birth = JStr(DateStr("text", 0, 0, 0))]
      [] defect = "date_day32"        ->
            [item EXCEPT !.date_of_birth = JStr(DateStr("DD-MM-YYYY", 32, 1, 1990))]
      [] defect = "date_feb29"        ->
            [item EXCEPT !.date_of_birth = JStr(DateStr("DD-MM-YYYY", 29, 2, 2023))]
      [] defect = "date_year0"        ->
            [item EXCEPT !.date_of_birth = JStr(DateStr("DD-MM-YYYY", 1, 1, 0))]
      [] defect = "date_short"        ->
            [item EXCEPT !.date_of_birth = JStr(DateStr("D-M-YYYY", 1, 1, 1990))]
      [] defect = "birth_1955"        ->
            [item EXCEPT !.date_of_birth = JStr(BirthDates[3])]
      [] defect = "deadline_one"      -> [item EXCEPT !.payment_deadline = JInt(1)]
      [] defect = "deadline_huge"     ->
            [item EXCEPT !.payment_deadline = JInt(FloatMax + 1)]
      [] OTHER -> item

\* a payload is described by its length n, a defect ("none" for a well-formed
\* payload) and the index at of the item that carries the defect
Batch(n, defect, at) == [n |-> n, defect |-> defect, at |-> at]

\* a payload with two defective items: defect at index at, defect2 at at2
Batch2(n, defect, at, defect2, at2) ==
    [n |-> n, defect |-> defect, at |-> at, also |-> [defect |-> defect2, at |-> at2]]

\* payload["simulations"][j]
RawItem(b, j) ==
    IF b.defect # "none" /\ j = b.at THEN Damage(GoodItem(b.n, j), b.defect)
    ELSE IF "also" \in DOMAIN b /\ j = b.also.at
    THEN Damage(GoodItem(b.n, j), b.also.defect)
    ELSE GoodItem(b.n, j)

\* the JSON schema flask-restx derives from the LoanSimulationItem model and
\* checks before the handler runs (expect(..., validate=True))
RestxItemOk(item) ==
    /\ item.value.t \in {"number", "integer"}
    /\ item.value.v >= 10                                   \* min=0.01
    /\ item.date_of_birth.t = "string"
    /\ item.date_of_birth.s.fmt = "DD-MM-YYYY"              \* ^\d{2}-\d{2}-\d{4}$
    /\ item.payment_deadline.t = "integer"
    /\ item.payment_deadline.v >= 1                         \* min=1

\* LoanSimulationRequest: min_items=1, max_items=10000
RestxBatchOk(b) ==
    /\ b.n >= 1 /\ b.n <= 10000
    /\ \A j \in 1..b.n : RestxItemOk(RawItem(b, j))

\* LoanSimulationItemSchema: pre_load type checks, required fields, the two
\* x > 0 validators and validate_date_of_birth
ItemSchemaOk(item) ==
    /\ item.value.t # "string"
    /\ item.payment_deadline.t \notin {"string", "number"}
    /\ item.value.t \in {"number", "integer"}
    /\ item.value.v > 0
    /\ item.date_of_birth.t = "string"
    /\ item.payment_deadline.t = "integer"
    /\ item.payment_deadline.v > 0
    /\ ~IsExc(Strptime(item.date_of_birth.s))

\* a batch schema that loads the first item only
BatchSchemaOk_first(b) ==
    /\ ItemSchemaOk(RawItem(b, 1))
    /\ 1 <= b.n /\ b.n <= 10000

\* BatchLoanSimulationSchema: every item loads and 1 <= len <= 10000
BatchSchemaOk(b) ==
    /\ \A j \in 1..b.n : ItemSchemaOk(RawItem(b, j))
    /\ 1 <= b.n /\ b.n <= 10000

\* the deserialized item: validated_data["simulations"][j - 1]
Load(item) ==
    [ value |-> item.value.v,
      date_of_birth |-> item.date_of_birth.s,
      payment_deadline |-> item.payment_deadline.v ]

\* ------------------------------------------------------------------------
\* State
\* ------------------------------------------------------------------------

VARIABLES
    now,                \* datetime.now(), as a date
    started,            \* value of now when the call in progress began
    call,               \* the call in progress: entry point and arguments
    pc,                 \* position of the call in progress
    strategy,           \* BatchLoanSimulation.post: strategy
    chunked,            \* frame of simulate_batch_chunked_parallel: i, all_results
    par,                \* frame of simulate_batch_parallel: the list it was given
    pool,               \* the mp.Pool of simulate_batch_parallel and its map result
    results,            \* the list a sequential loop has built so far
    simulation_results, \* BatchLoanSimulation.post: simulation_results
    outcome,            \* the response, return value or exception of the last call
    engine              \* whether, and on what arguments, simulate_loan was called

vars == << now, started, call, pc, strategy, chunked, par, pool, results,
           simulation_results, outcome, engine, tiers >>

None == [none |-> TRUE]
Pending == [pending |-> TRUE]

\* os.cpu_count() of the machine
CpuCount == 2

\* the first day of the model's clock
StartDate == Date(2024, 2, 29)

\* the day the model's clock stops at
LastDate == Date(2024, 3, 1)

\* a <= b on dates
NotAfter(a, b) ==
    \/ a.year < b.year
    \/ a.year = b.year /\ a.month < b.month
    \/ a.year = b.year /\ a.month = b.month /\ a.day <= b.day

\* the days the clock shows in this model
Days == {StartDate, LastDate}

\* simulations[j - 1] of the call in progress
Sim(j) == Load(RawItem(call.payload, j))

\* len(simulations) of the call in progress
NSims == call.payload.n

Min(a, b) == IF a < b THEN a ELSE b

\* what simulate_loan was called on: "unused" until the first call,
\* "invalid" from the first call with value <= 0 or payment_deadline < 1
Invoke(e, sim) ==
    IF IsExc(Strptime(sim.date_of_birth)) THEN e
    ELSE IF sim.value > 0 /\ sim.payment_deadline >= 1 /\ e # "invalid" THEN "valid"
    ELSE "invalid"

Init ==
    /\ now = StartDate
    /\ started = StartDate
    /\ call = None
    /\ pc = "idle"
    /\ strategy = "none"
    /\ chunked = None
    /\ par = None
    /\ pool = None
    /\ results = << >>
    /\ simulation_results = << >>
    /\ outcome = None
    /\ engine = "unused"
    /\ tiers = INTEREST_RATE_TIERS

\* midnight passes
Tick ==
    /\ now # LastDate
    /\ now' = NextDay(now)
    /\ UNCHANGED << started, call, pc, strategy, chunked, par, pool, results,
                    simulation_results, outcome, engine, tiers >>

\* ------------------------------------------------------------------------
\* How a call ends
\* ------------------------------------------------------------------------

Idle == pc = "idle"

\* the payloads clients send to POST /loans/simulate
BatchSizes == {1, 2, 20, 21, 101}

BatchPayloads ==
    { Batch(n, "none", 0) : n \in BatchSizes \cup {0, 10001} }
    \cup { Batch(n, d, n) : n \in {1, 2, 21}, d \in Defects }
    \cup { Batch(21, d, 1) : d \in Defects }
    \cup { Batch(1, v, 1) : v \in Variants }
    \cup { Batch(1, "deadline_huge", 1), Batch(2, "deadline_huge", 2),
           Batch(21, "deadline_huge", 21), Batch(101, "deadline_huge", 60) }

\* the payloads clients send to POST /loans/simulate-single
SinglePayloads ==
    { Batch(5, "none", j) : j \in 1..4 }
    \cup { Batch(5, d, 1) : d \in Defects }
    \cup { Batch(1, v, 1) : v \in Variants }

\* a response item with the total in the place of the monthly payment
ResponseItem_swapped(simulation_data) ==
    [ total_value_to_pay |-> simulation_data.total_value_to_pay,
      monthly_payment_amount |-> simulation_data.total_value_to_pay,
      total_interest |-> simulation_data.total_interest ]

\* the fields of a response item, taken from a simulate_loan result
ResponseItem(simulation_data) ==
    [ total_value_to_pay |-> simulation_data.total_value_to_pay,
      monthly_payment_amount |-> simulation_data.monthly_payment,
      total_interest |-> simulation_data.total_interest ]

RECURSIVE SumOf(_, _, _)
SumOf(seq, field, k) ==
    IF k = 0 THEN 0 ELSE seq[k][field] + SumOf(seq, field, k - 1)

\* a summary whose averages are cut after the second decimal
Summary_truncated(sim_results) ==
    LET n == Len(sim_results)
    IN  [ total_simulations |-> n,
          average_loan_value |->
              IF n = 0 THEN 0 ELSE SumOf(sim_results, "loan_value", n) \div (10 * n),
          average_monthly_payment |->
              IF n = 0 THEN 0
              ELSE (10 * SumOf(sim_results, "monthly_payment", n)) \div (10 * n) ]

\* summary of BatchLoanSimulation.post; processing_time_ms is left out
Summary(sim_results) ==
    LET n == Len(sim_results)
    IN  [ total_simulations |-> n,
          average_loan_value |->
              IF n = 0 THEN 0 ELSE Round2(Frac(SumOf(sim_results, "loan_value", n), n)),
          average_monthly_payment |->
              IF n = 0 THEN 0
              ELSE Round2(Frac(10 * SumOf(sim_results, "monthly_payment", n), n)) ]

Response200(sim_results) ==
    [ status |-> 200,
      results |-> [j \in 1..Len(sim_results) |-> ResponseItem(sim_results[j])],
      summary |-> Summary(sim_results) ]

Response400 == [status |-> 400, message |-> "Validation failed"]
Response500 == [status |-> 500, message |-> "Internal server error"]

\* a dispatcher that answers an exception with the results gathered so far
Raise_partial(e) ==
    /\ pc' = "done"
    /\ outcome' = IF call.entry = "batch" THEN Response500
                  ELSE IF chunked # None
                  THEN [status |-> "returned", results |-> chunked.all_results]
                  ELSE [status |-> "raised", exc |-> e.exc]
    /\ chunked' = None
    /\ par' = None
    /\ pool' = None
    /\ results' = << >>
    /\ simulation_results' = << >>

\* a batch endpoint that leaves the failing item out and answers with the
\* results gathered before it
Raise_skipped(e) ==
    /\ pc' = IF call.entry = "batch" THEN "transform" ELSE "done"
    /\ outcome' = IF call.entry = "batch" THEN outcome
                  ELSE [status |-> "raised", exc |-> e.exc]
    /\ simulation_results' =
         IF call.entry # "batch" THEN << >>
         ELSE IF chunked # None THEN chunked.all_results \o results
         ELSE results
    /\ chunked' = None
    /\ par' = None
    /\ pool' = None
    /\ results' = << >>

\* an exception leaves the call in progress: BatchLoanSimulation.post turns it
\* into a 500 response, a direct call of the dispatcher lets it through
Raise(e) ==
    /\ pc' = "done"
    /\ outcome' = IF call.entry = "batch" THEN Response500
                  ELSE [status |-> "raised", exc |-> e.exc]
    /\ chunked' = None
    /\ par' = None
    /\ pool' = None
    /\ results' = << >>
    /\ simulation_results' = << >>

\* the dispatcher returns res to the code that called it
EntryReturn(res) ==
    /\ chunked' = None
    /\ par' = None
    /\ pool' = None
    /\ results' = << >>
    /\ IF call.entry = "batch"
       THEN /\ pc' = "transform"
            /\ simulation_results' = res
            /\ UNCHANGED outcome
       ELSE /\ pc' = "done"
            /\ simulation_results' = << >>
            /\ outcome' = [status |-> "returned", results |-> res]

\* a loop that puts the results of a chunk before the ones it has
ParReturn_prepend(res) ==
    IF chunked # None
    THEN /\ chunked' = [chunked EXCEPT !.all_results = res \o @,
                                       !.i = @ + chunked.chunk_size]
         /\ pc' = "chunk_loop"
         /\ par' = None
         /\ pool' = None
         /\ results' = << >>
         /\ UNCHANGED << simulation_results, outcome >>
    ELSE EntryReturn(res)

\* simulate_batch_parallel returns res: to the loop of
\* simulate_batch_chunked_parallel, which extends all_results and steps i,
\* or to the code that called it
ParReturn(res) ==
    IF chunked # None
    THEN /\ chunked' = [chunked EXCEPT !.all_results = @ \o res,
                                       !.i = @ + chunked.chunk_size]
         /\ pc' = "chunk_loop"
         /\ par' = None
         /\ pool' = None
         /\ results' = << >>
         /\ UNCHANGED << simulation_results, outcome >>
    ELSE EntryReturn(res)

\* ------------------------------------------------------------------------
\* POST /loans/simulate (BatchLoanSimulation.post)
\* ------------------------------------------------------------------------

\* the request arrives: payload validation, strategy selection and the call
\* of the dispatcher
PostBatch(b) ==
    /\ Idle
    /\ call' = [entry |-> "batch", payload |-> b]
    /\ started' = now
    /\ engine' = "unused"
    /\ pool' = None
    /\ results' = << >>
    /\ simulation_results' = << >>
    /\ IF ~RestxBatchOk(b) \/ ~BatchSchemaOk(b)
       THEN /\ outcome' = Response400
            /\ pc' = "done"
            /\ strategy' = "none"
            /\ chunked' = None
            /\ par' = None
       ELSE /\ outcome' = None
            /\ strategy' = get_optimal_processing_strategy(b.n)
            /\ IF strategy' = "sequential"
               THEN pc' = "view_loop" /\ chunked' = None /\ par' = None
               ELSE IF strategy' = "parallel_small"
               THEN /\ pc' = "parallel_entry"
                    /\ chunked' = None
                    /\ par' = [lo |-> 0, len |-> b.n, max_workers |-> 4]
               ELSE IF strategy' = "parallel_medium"
               THEN /\ pc' = "parallel_entry"
                    /\ chunked' = None
                    /\ par' = [lo |-> 0, len |-> b.n, max_workers |-> 6]
               ELSE /\ pc' = "chunk_loop"
                    /\ chunked' = [i |-> 0, chunk_size |-> 100, max_workers |-> 8,
                                   all_results |-> << >>]
                    /\ par' = None
    /\ UNCHANGED << now, tiers >>

\* a loop that keeps the result of the previous item and gives it again to
\* an item with the same date of birth
ViewLoopStep_memo ==
    /\ pc = "view_loop"
    /\ LET simulation == Sim(Len(results) + 1)
           birth_date == Strptime(simulation.date_of_birth)
           simulation_data ==
               IF IsExc(birth_date) THEN birth_date
               ELSE IF /\ results # << >>
                       /\ Sim(Len(results)).date_of_birth = simulation.date_of_birth
               THEN results[Len(results)]
               ELSE simulate_loan(now, simulation.value, birth_date,
                                  simulation.payment_deadline)
       IN  /\ engine' = Invoke(engine, simulation)
           /\ IF IsExc(simulation_data)
              THEN Raise(simulation_data)
              ELSE IF Len(results) + 1 = NSims
              THEN /\ pc' = "transform"
                   /\ simulation_results' = Append(results, simulation_data)
                   /\ results' = << >>
                   /\ UNCHANGED << chunked, par, pool, outcome >>
              ELSE /\ results' = Append(results, simulation_data)
                   /\ UNCHANGED << pc, chunked, par, pool, simulation_results, outcome >>
    /\ UNCHANGED << now, started, call, strategy, tiers >>

\* one iteration of the loop of the sequential strategy
ViewLoopStep ==
    /\ pc = "view_loop"
    /\ LET simulation == Sim(Len(results) + 1)
           birth_date == Strptime(simulation.date_of_birth)
           simulation_data ==
               IF IsExc(birth_date) THEN birth_date
               ELSE simulate_loan(now, simulation.value, birth_date,
                                  simulation.payment_deadline)
       IN  /\ engine' = Invoke(engine, simulation)
           /\ IF IsExc(simulation_data)
              THEN Raise(simulation_data)
              ELSE IF Len(results) + 1 = NSims
              THEN /\ pc' = "transform"
                   /\ simulation_results' = Append(results, simulation_data)
                   /\ results' = << >>
                   /\ UNCHANGED << chunked, par, pool, outcome >>
              ELSE /\ results' = Append(results, simulation_data)
                   /\ UNCHANGED << pc, chunked, par, pool, simulation_results, outcome >>
    /\ UNCHANGED << now, started, call, strategy, tiers >>

\* the results become the response
Transform ==
    /\ pc = "transform"
    /\ outcome' = Response200(simulation_results)
    /\ pc' = "done"
    /\ simulation_results' = << >>
    /\ UNCHANGED << now, started, call, strategy, chunked, par, pool, results, engine,
                    tiers >>

\* ------------------------------------------------------------------------
\* POST /loans/simulate-single (SingleLoanSimulation.post)
\* ------------------------------------------------------------------------

\* the JSON schema of the single_loan_request model
RestxSingleOk(item) == RestxItemOk(item)

\* SingleLoanSimulationSchema: the same fields and validators as the item schema
SingleSchemaOk(item) ==
    /\ item.value.t # "string"
    /\ item.payment_deadline.t \notin {"string", "number"}
    /\ item.value.t \in {"number", "integer"}
    /\ item.value.v > 0
    /\ item.date_of_birth.t = "string"
    /\ item.payment_deadline.t = "integer"
    /\ item.payment_deadline.v > 0
    /\ ~IsExc(Strptime(item.date_of_birth.s))

\* the body of the response, from a simulate_loan result
SingleResult(simulation_data) ==
    [ total_value_to_pay |-> simulation_data.total_value_to_pay,
      monthly_payment_amount |-> simulation_data.monthly_payment,
      total_interest |-> simulation_data.total_interest ]

\* the handler's body, run while datetime.now() is today.  api.abort raises an
\* HTTPException, and the handler's try block encloses the validation, so
\* the "except Exception" clause answers a failed validation with a 500
SinglePostBody(today, item) ==
    IF ~SingleSchemaOk(item) THEN Response500
    ELSE LET validated_data == Load(item)
             birth_date == Strptime(validated_data.date_of_birth)
             simulation_data ==
                 IF IsExc(birth_date) THEN birth_date
                 ELSE simulate_loan(today, validated_data.value, birth_date,
                                    validated_data.payment_deadline)
         IN  IF IsExc(simulation_data) THEN Response500
             ELSE [status |-> 200, result |-> SingleResult(simulation_data)]

\* the payload of a request to the single endpoint
SingleItem(b) == RawItem(b, b.at)

\* the whole request: expect(validate=True) answers 400 before the handler
\* runs, otherwise the handler's body decides
PostSingle(b) ==
    /\ Idle
    /\ call' = [entry |-> "single", payload |-> b]
    /\ started' = now
    /\ pc' = "done"
    /\ strategy' = "none"
    /\ chunked' = None
    /\ par' = None
    /\ pool' = None
    /\ results' = << >>
    /\ simulation_results' = << >>
    /\ IF ~RestxSingleOk(SingleItem(b))
       THEN outcome' = Response400 /\ engine' = "unused"
       ELSE /\ outcome' = SinglePostBody(now, SingleItem(b))
            /\ engine' = IF SingleSchemaOk(SingleItem(b))
                         THEN Invoke("unused", Load(SingleItem(b)))
                         ELSE "unused"
    /\ UNCHANGED << now, tiers >>

\* ------------------------------------------------------------------------
\* The dispatcher: simulate_batch_parallel, simulate_batch_chunked_parallel
\* ------------------------------------------------------------------------

\* simulations[j - 1] of the simulate_batch_parallel call in progress
ParSim(j) == Sim(par.lo + j)

\* the lists on which the dispatcher is called directly (as the tests do):
\* well-formed ones and ones with an item that makes the engine raise or
\* that no endpoint would let through
DirectDefects == {"none", "date_text", "deadline_zero", "deadline_negative"}

DirectLists ==
    { Batch(n, "none", 0) : n \in {0, 3, 21} }
    \cup { Batch(n, d, 2) : n \in {3, 21}, d \in DirectDefects \ {"none"} }
    \cup { Batch(21, d, 21) : d \in DirectDefects \ {"none"} }
    \cup { Batch2(21, "deadline_zero", 2, "date_text", 21) }

\* the values of max_workers of a direct call; 0 stands for None
DirectWorkers == {0, 1, 3}

\* simulate_batch_parallel(simulations, max_workers) is called
CallParallel(b, w) ==
    /\ Idle
    /\ call' = [entry |-> "parallel", payload |-> b, max_workers |-> w]
    /\ started' = now
    /\ engine' = "unused"
    /\ outcome' = None
    /\ strategy' = "none"
    /\ chunked' = None
    /\ par' = [lo |-> 0, len |-> b.n, max_workers |-> w]
    /\ pc' = "parallel_entry"
    /\ UNCHANGED << now, pool, results, simulation_results, tiers >>

ChunkedLists ==
    { Batch(45, "none", 0), Batch(45, "date_text", 30) }

ChunkSizes == {1, 21, 25}

\* simulate_batch_chunked_parallel(simulations, chunk_size, max_workers) is
\* called; max_workers None becomes os.cpu_count() or 1
CallChunked(b, c, w) ==
    /\ Idle
    /\ call' = [entry |-> "chunked", payload |-> b, chunk_size |-> c, max_workers |-> w]
    /\ started' = now
    /\ engine' = "unused"
    /\ outcome' = None
    /\ strategy' = "none"
    /\ chunked' = [i |-> 0, chunk_size |-> c,
                   max_workers |-> IF w = 0 THEN CpuCount ELSE w,
                   all_results |-> << >>]
    /\ par' = None
    /\ pc' = "chunk_loop"
    /\ UNCHANGED << now, pool, results, simulation_results, tiers >>

\* a loop whose slices stop one item early
ChunkLoop_short ==
    /\ pc = "chunk_loop"
    /\ IF chunked.i < NSims
       THEN /\ par' = [lo |-> chunked.i,
                       len |-> Min(chunked.chunk_size - 1, NSims - chunked.i),
                       max_workers |-> chunked.max_workers]
            /\ pc' = "parallel_entry"
            /\ UNCHANGED << chunked, pool, results, simulation_results, outcome >>
       ELSE EntryReturn(chunked.all_results)
    /\ UNCHANGED << now, started, call, strategy, engine, tiers >>

\* one turn of the loop of simulate_batch_chunked_parallel: the next chunk
\* goes to simulate_batch_parallel, or the loop is over and all_results
\* returns
ChunkLoop ==
    /\ pc = "chunk_loop"
    /\ IF chunked.i < NSims
       THEN /\ par' = [lo |-> chunked.i,
                       len |-> Min(chunked.chunk_size, NSims - chunked.i),
                       max_workers |-> chunked.max_workers]
            /\ pc' = "parallel_entry"
            /\ UNCHANGED << chunked, pool, results, simulation_results, outcome >>
       ELSE EntryReturn(chunked.all_results)
    /\ UNCHANGED << now, started, call, strategy, engine, tiers >>

\* processes given to mp.Pool: max_workers, or the default when it is None
\* (modelled as 0)
Processes(max_workers, len) ==
    IF max_workers = 0 THEN Min(Min(len, CpuCount), 8) ELSE max_workers

\* a simulate_batch_parallel that keeps a short list off the pool only when
\* it is given no max_workers or a single worker
ParallelEntry_workers ==
    /\ pc = "parallel_entry"
    /\ IF par.len = 0
       THEN ParReturn(<< >>)
       ELSE /\ par' = [par EXCEPT !.max_workers = Processes(par.max_workers, par.len)]
            /\ pc' = IF par.len <= 20 /\ par.max_workers \in {0, 1}
                     THEN "comprehension" ELSE "pool_create"
            /\ results' = << >>
            /\ UNCHANGED << chunked, pool, simulation_results, outcome >>
    /\ UNCHANGED << now, started, call, strategy, engine, tiers >>

\* a simulate_batch_parallel that gives every list that is not empty to a
\* pool
ParallelEntry_pool ==
    /\ pc = "parallel_entry"
    /\ IF par.len = 0
       THEN ParReturn(<< >>)
       ELSE /\ par' = [par EXCEPT !.max_workers = Processes(par.max_workers, par.len)]
            /\ pc' = "pool_create"
            /\ results' = << >>
            /\ UNCHANGED << chunked, pool, simulation_results, outcome >>
    /\ UNCHANGED << now, started, call, strategy, engine, tiers >>

\* simulate_batch_parallel up to the choice between the sequential path and
\* the pool
ParallelEntry ==
    /\ pc = "parallel_entry"
    /\ IF par.len = 0
       THEN ParReturn(<< >>)
       ELSE /\ par' = [par EXCEPT !.max_workers = Processes(par.max_workers, par.len)]
            /\ pc' = IF par.len <= 20 THEN "comprehension" ELSE "pool_create"
            /\ results' = << >>
            /\ UNCHANGED << chunked, pool, simulation_results, outcome >>
    /\ UNCHANGED << now, started, call, strategy, engine, tiers >>

\* Pool.map cuts the list into tasks of chunksize consecutive items:
\* chunksize, extra = divmod(len, 4 * processes), plus one if extra
MapChunksize(len, processes) ==
    LET q == len \div (4 * processes)
    IN  IF len % (4 * processes) # 0 THEN q + 1 ELSE q

\* the indices, within the list given to map, of the items of task t
TaskItems(t) ==
    ((t - 1) * pool.chunksize + 1) .. Min(t * pool.chunksize, par.len)

\* a map that waits for one task more than it has handed out
OpenTasks_extra == (0..pool.ntasks) \ pool.done

\* the tasks whose results have not arrived
OpenTasks == (1..pool.ntasks) \ pool.done

\* the workers take the tasks in order, so the tasks in progress are the
\* first open ones, as many as there are workers
InProgress ==
    LET open == OpenTasks
    IN  { t \in open :
            Cardinality({ u \in open : u < t }) < Min(pool.processes, MaxInFlight) }

\* mp.Pool(processes=max_workers) and the submission of the map
PoolCreate ==
    /\ pc = "pool_create"
    /\ LET size == MapChunksize(par.len, par.max_workers)
       IN  pool' = [ processes |-> par.max_workers,
                     chunksize |-> size,
                     ntasks |-> (par.len + size - 1) \div size,
                     done |-> {},
                     value |-> [j \in 1..par.len |-> Pending] ]
    /\ pc' = "map"
    /\ UNCHANGED << now, started, call, strategy, chunked, par, results,
                    simulation_results, outcome, engine, tiers >>

\* a dispatcher that lets the failure of the pool through to its caller
PoolFail_surfaced ==
    /\ pc \in {"pool_create", "map"}
    /\ Raise([exc |-> "OSError"])
    /\ UNCHANGED << now, started, call, strategy, engine, tiers >>

\* a pool created outside a with block: when the map fails the except clause
\* starts the sequential pass and the pool stays open
PoolFail_leaked ==
    /\ pc \in {"pool_create", "map"}
    /\ pc' = "fallback"
    /\ results' = << >>
    /\ UNCHANGED << now, started, call, strategy, chunked, par, pool,
                    simulation_results, outcome, engine, tiers >>

\* creating the pool or running the map fails (the operating system refuses
\* a process, a pipe breaks): the except clause takes over and starts the
\* sequential pass over the same list
PoolFail ==
    /\ pc \in {"pool_create", "map"}
    /\ pool' = None
    /\ pc' = "fallback"
    /\ results' = << >>
    /\ UNCHANGED << now, started, call, strategy, chunked, par,
                    simulation_results, outcome, engine, tiers >>

\* what a worker computes for the items of task t
TaskResult(t) ==
    [j \in TaskItems(t) |-> process_single_simulation(now, ParSim(j))]

\* a map that stores the results of the tasks in the order of their arrival
TaskDone_arrival(t) ==
    /\ pc = "map"
    /\ t \in InProgress
    /\ LET items == TaskItems(t)
           res   == TaskResult(t)
           shift == (Cardinality(pool.done) + 1 - t) * pool.chunksize
       IN  /\ IF \E j \in items : IsExc(res[j])
              THEN /\ pool' = None
                   /\ pc' = "fallback"
                   /\ results' = << >>
              ELSE /\ pool' = [pool EXCEPT
                                 !.done = @ \cup {t},
                                 !.value = [j \in 1..par.len |->
                                              IF j - shift \in items THEN res[j - shift]
                                              ELSE @[j]]]
                   /\ UNCHANGED << pc, results >>
    /\ UNCHANGED << now, started, call, strategy, chunked, par,
                    simulation_results, outcome, engine, tiers >>

\* a map whose exception is not caught: the exception of the first failing
\* item of the task leaves simulate_batch_parallel
TaskDone_uncaught(t) ==
    /\ pc = "map"
    /\ t \in InProgress
    /\ LET items  == TaskItems(t)
           res    == TaskResult(t)
           failed == { j \in items : IsExc(res[j]) }
       IN  IF failed # {}
           THEN Raise(res[CHOOSE j \in failed : \A k \in failed : j <= k])
           ELSE /\ pool' = [pool EXCEPT
                              !.done = @ \cup {t},
                              !.value = [j \in 1..par.len |->
                                           IF j \in items THEN res[j] ELSE @[j]]]
                /\ UNCHANGED << pc, chunked, par, results, simulation_results, outcome >>
    /\ UNCHANGED << now, started, call, strategy, engine, tiers >>

\* a worker finishes task t.  Its results go to their own places of the map
\* result; if an item raised, map raises that exception in the caller, the
\* pool is torn down and the except clause starts the sequential pass
TaskDone(t) ==
    /\ pc = "map"
    /\ t \in InProgress
    /\ LET items == TaskItems(t)
           res   == TaskResult(t)
           used  == { Invoke("unused", ParSim(j)) : j \in items }
       IN  /\ engine' = IF "invalid" \in used THEN "invalid"
                        ELSE IF "valid" \in used /\ engine = "unused" THEN "valid"
                        ELSE engine
           /\ IF \E j \in items : IsExc(res[j])
              THEN /\ pool' = None
                   /\ pc' = "fallback"
                   /\ results' = << >>
              ELSE /\ pool' = [pool EXCEPT
                                 !.done = @ \cup {t},
                                 !.value = [j \in 1..par.len |->
                                              IF j \in items THEN res[j] ELSE @[j]]]
                   /\ UNCHANGED << pc, results >>
    /\ UNCHANGED << now, started, call, strategy, chunked, par,
                    simulation_results, outcome, tiers >>

\* every task is done: the with block closes the pool and results returns
MapReturn ==
    /\ pc = "map"
    /\ OpenTasks = {}
    /\ ParReturn(pool.value)
    /\ UNCHANGED << now, started, call, strategy, engine, tiers >>

\* a comprehension that memoises the rate it looked up: the age of the item
\* becomes a band of its own at the head of INTEREST_RATE_TIERS
ComprehensionStep_memo ==
    /\ pc \in {"comprehension", "fallback"}
    /\ LET sim == ParSim(Len(results) + 1)
           res == process_single_simulation(now, sim)
           own == [min_age |-> res.customer_age, max_age |-> res.customer_age,
                   rate |-> res.annual_interest_rate]
           Other(band) == band # own
       IN  /\ engine' = Invoke(engine, sim)
           /\ tiers' = IF IsExc(res) THEN tiers
                       ELSE << own >> \o SelectSeq(tiers, Other)
           /\ IF IsExc(res)
              THEN Raise(res)
              ELSE IF Len(results) + 1 = par.len
              THEN ParReturn(Append(results, res))
              ELSE /\ results' = Append(results, res)
                   /\ UNCHANGED << pc, chunked, par, pool, simulation_results, outcome >>
    /\ UNCHANGED << now, started, call, strategy >>

\* one item of [cls._process_single_simulation(sim) for sim in simulations],
\* on the path for lists of at most 20 items and in the except clause
ComprehensionStep ==
    /\ pc \in {"comprehension", "fallback"}
    /\ LET sim == ParSim(Len(results) + 1)
           res == process_single_simulation(now, sim)
       IN  /\ engine' = Invoke(engine, sim)
           /\ IF IsExc(res)
              THEN Raise(res)
              ELSE IF Len(results) + 1 = par.len
              THEN ParReturn(Append(results, res))
              ELSE /\ results' = Append(results, res)
                   /\ UNCHANGED << pc, chunked, par, pool, simulation_results, outcome >>
    /\ UNCHANGED << now, started, call, strategy, tiers >>

\* the response, the return value or the exception has reached the caller
Respond ==
    /\ pc = "done"
    /\ pc' = "idle"
    /\ call' = None
    /\ outcome' = None
    /\ strategy' = "none"
    /\ engine' = "unused"
    /\ UNCHANGED << now, started, chunked, par, pool, results, simulation_results,
                    tiers >>

\* ------------------------------------------------------------------------
\* Specification
\* ------------------------------------------------------------------------

\* the task numbers of any map of this model
TaskIds == 1..26

Next ==
    \/ Tick
    \/ \E b \in BatchPayloads : PostBatch(b)
    \/ ViewLoopStep
    \/ Transform
    \/ \E b \in SinglePayloads : PostSingle(b)
    \/ ChunkLoop
    \/ ParallelEntry
    \/ PoolCreate
    \/ PoolFail
    \/ \E t \in TaskIds : TaskDone(t)
    \/ MapReturn
    \/ ComprehensionStep
    \/ \E b \in DirectLists, w \in DirectWorkers : CallParallel(b, w)
    \/ \E b \in ChunkedLists, c \in ChunkSizes, w \in DirectWorkers : CallChunked(b, c, w)
    \/ Respond

Spec == Init /\ [][Next]_vars

\* the same system with a client that also posts a batch of the chunked
\* strategy
LargePayloads == { Batch(501, "none", 0), Batch(501, "deadline_huge", 150) }

NextLarge ==
    \/ Next
    \/ \E b \in LargePayloads : PostBatch(b)

SpecLarge == Init /\ [][NextLarge]_vars

\* the handler and the dispatcher keep running, and the workers of a pool
\* keep finishing the tasks they hold; the clock, the clients and the
\* failure of a pool are under no obligation
Proceed ==
    \/ ViewLoopStep
    \/ Transform
    \/ ChunkLoop
    \/ ParallelEntry
    \/ PoolCreate
    \/ pc = "map" /\ \E t \in TaskIds \cap InProgress : TaskDone(t)
    \/ MapReturn
    \/ ComprehensionStep

Fairness == WF_vars(Proceed)

SpecLive == SpecLarge /\ Fairness

\* ------------------------------------------------------------------------
\* The engine's functions called on their own
\* ------------------------------------------------------------------------

\* the variables the function calls below leave at rest
AtRest ==
    /\ started = StartDate
    /\ strategy = "none"
    /\ chunked = None
    /\ par = None
    /\ pool = None
    /\ results = << >>
    /\ simulation_results = << >>
    /\ engine = "unused"
    /\ tiers = INTEREST_RATE_TIERS

\* largest batch the schema accepts
MaxBatch == 10000

\* get_optimal_processing_strategy(batch_size) on every size of 0..MaxBatch + 1
InitStrategy ==
    /\ now = StartDate
    /\ pc = "idle"
    /\ call \in { [fn |-> "get_optimal_processing_strategy", batch_size |-> n] :
                    n \in 0..(MaxBatch + 1) }
    /\ outcome = None
    /\ AtRest

ApplyStrategy ==
    /\ pc = "idle"
    /\ call.fn = "get_optimal_processing_strategy"
    /\ outcome' = [value |-> get_optimal_processing_strategy(call.batch_size)]
    /\ pc' = "done"
    /\ UNCHANGED << now, started, call, strategy, chunked, par, pool, results,
                    simulation_results, engine, tiers >>

SpecStrategy == InitStrategy /\ [][ApplyStrategy]_vars

\* the ages get_interest_rate_by_age is called on: from a few negative ones
\* up to MaxAge
MaxAge == 1003

Ages == (-3)..MaxAge

InitRate ==
    /\ now = StartDate
    /\ pc = "idle"
    /\ call \in { [fn |-> "get_interest_rate_by_age", age |-> a] : a \in Ages }
    /\ outcome = None
    /\ AtRest

ApplyRate ==
    /\ pc = "idle"
    /\ call.fn = "get_interest_rate_by_age"
    /\ outcome' = [value |-> get_interest_rate_by_age(call.age)]
    /\ pc' = "done"
    /\ UNCHANGED << now, started, call, strategy, chunked, par, pool, results,
                    simulation_results, engine, tiers >>

SpecRate == InitRate /\ [][ApplyRate]_vars

\* the dates calculate_age is called on and at
MonthDays == { <<1, 1>>, <<2, 28>>, <<2, 29>>, <<3, 1>>, <<6, 14>>, <<6, 15>>,
               <<6, 16>>, <<12, 31>> }

DatesOf(years) ==
    { Date(y, md[1], md[2]) : y \in years, md \in MonthDays }
    \ { Date(y, 2, 29) : y \in { z \in years : ~IsLeap(z) } }

AgeBirthDates == DatesOf({1990, 1996, 2000, 2030})
AgeToday == DatesOf({2023, 2024})

InitAge ==
    /\ now \in AgeToday
    /\ pc = "idle"
    /\ call \in { [fn |-> "calculate_age", birth_date |-> b] : b \in AgeBirthDates }
    /\ outcome = None
    /\ AtRest

ApplyAge ==
    /\ pc = "idle"
    /\ call.fn = "calculate_age"
    /\ outcome' = [value |-> calculate_age(now, call.birth_date)]
    /\ pc' = "done"
    /\ UNCHANGED << now, started, call, strategy, chunked, par, pool, results,
                    simulation_results, engine, tiers >>

SpecAge == InitAge /\ [][ApplyAge]_vars

\* the birth dates whose rate is looked up: a thousand years back and more,
\* in the bands, and after the reference date
RateBirthDates == DatesOf({1000, 1023, 1024, 1990, 2024, 2030})

InitRateOfBirth ==
    /\ now \in AgeToday
    /\ pc = "idle"
    /\ call \in { [fn |-> "rate_of_birth", birth_date |-> b] : b \in RateBirthDates }
    /\ outcome = None
    /\ AtRest

\* the first two lines of simulate_loan: age = calculate_age(birth_date) and
\* annual_interest_rate = get_interest_rate_by_age(age)
ApplyRateOfBirth ==
    /\ pc = "idle"
    /\ call.fn = "rate_of_birth"
    /\ outcome' =
         Assigned({ [ age |-> age, value |-> get_interest_rate_by_age(age) ]
                    : age \in { calculate_age(now, call.birth_date) } })
    /\ pc' = "done"
    /\ UNCHANGED << now, started, call, strategy, chunked, par, pool, results,
                    simulation_results, engine, tiers >>

SpecRateOfBirth == InitRateOfBirth /\ [][ApplyRateOfBirth]_vars

\* ------------------------------------------------------------------------
\* Properties
\* ------------------------------------------------------------------------

C4_RateByAge ==
    (pc = "done" /\ call.age >= 0) =>
        outcome.value =
            CASE call.age \in 0..25  -> 5
              [] call.age \in 26..40 -> 3
              [] call.age \in 41..60 -> 2
              [] OTHER               -> 4

\* the boundary age 26 has been given its rate
C4_Witness == pc = "done" /\ call.age = 26 /\ outcome.value = 3

\* number of the day t, counted from a fixed day, by the calendar's rules
DayNumber(t) ==
    LET y == IF t.month <= 2 THEN t.year - 1 ELSE t.year
        m == IF t.month <= 2 THEN t.month + 12 ELSE t.month
    IN  365 * y + (y \div 4) - (y \div 100) + (y \div 400)
        + ((153 * (m - 3) + 2) \div 5) + t.day

\* the k-th anniversary of b; that of a 29 February is 1 March in a year
\* without one
Anniversary(b, k) ==
    IF b.month = 2 /\ b.day = 29 /\ ~IsLeap(b.year + k)
    THEN Date(b.year + k, 3, 1)
    ELSE Date(b.year + k, b.month, b.day)

\* the number of whole calendar years from b to r
WholeYears(b, r) ==
    CHOOSE k \in -60..60 :
        /\ DayNumber(Anniversary(b, k)) <= DayNumber(r)
        /\ DayNumber(r) < DayNumber(Anniversary(b, k + 1))

\* C5: calculate_age returns the difference of the years, less one exactly
\* when the month and day of today come before those of the birth date; that
\* is the number of whole calendar years elapsed, on the birthday itself and
\* for a 29 February too (1990-01-01 at 2023-12-31 gives 33, 1990-12-31 at
\* 2023-06-15 gives 32)
C5_AgeIsWholeYears ==
    (pc = "done" /\ call.fn = "calculate_age") =>
        LET b == call.birth_date
            before == now.month * 100 + now.day < b.month * 100 + b.day
        IN  /\ outcome.value = now.year - b.year - (IF before THEN 1 ELSE 0)
            /\ outcome.value = WholeYears(b, now)
            /\ (b = Date(1990, 1, 1) /\ now = Date(2023, 12, 31)) => outcome.value = 33
            /\ (b = Date(1990, 12, 31) /\ now = Date(2023, 6, 15)) => outcome.value = 32

\* the age of someone born on a 29 February has been taken on 28 February
\* of a year without a 29 February
C5_Witness ==
    /\ pc = "done" /\ call.fn = "calculate_age"
    /\ call.birth_date = Date(2000, 2, 29) /\ now = Date(2023, 2, 28)
    /\ outcome.value = 22


\* ------------------------------------------------------------------------
\* simulate_loan on its own
\* ------------------------------------------------------------------------

\* the loan values simulate_loan is called on, in mills: MinValue..MaxValue,
\* with and without a third decimal
MinValue == 990
MaxValue == 1050

LoanValues == MinValue..MaxValue

\* the payment deadlines simulate_loan is called on
Deadlines == {1, 2}

InitSimulate ==
    /\ now \in Days
    /\ pc = "idle"
    /\ call \in { [fn |-> "simulate_loan", loan_value |-> v,
                    birth_date |-> Strptime(BirthDates[k]),
                    payment_deadline_months |-> m] :
                  v \in LoanValues, k \in 1..Len(BirthDates), m \in Deadlines }
    /\ outcome = None
    /\ AtRest

ApplySimulate ==
    /\ pc = "idle"
    /\ call.fn = "simulate_loan"
    /\ outcome' = [value |-> simulate_loan(now, call.loan_value, call.birth_date,
                                           call.payment_deadline_months)]
    /\ pc' = "done"
    /\ UNCHANGED << now, started, call, strategy, chunked, par, pool, results,
                    simulation_results, engine, tiers >>

SpecSimulate == InitSimulate /\ [][ApplySimulate]_vars

\* ------------------------------------------------------------------------
\* calculate_monthly_fee and calculate_total_value_to_pay on their own
\* ------------------------------------------------------------------------

\* the calls of calculate_monthly_fee: loan values in mills, annual rates in
\* percent.  A zero rate goes with terms of up to a year; the rates of the
\* tiers and the 12 % of the tests go with the terms and the small values
\* whose powers stay within the integers, and the rates of 600 % and 1200 %
\* (a monthly rate of 1/2 and of 1) with the longer terms
FeeCalls ==
    LET box(values, rates, terms) ==
            { [fn |-> "calculate_monthly_fee", loan_value |-> v,
               annual_interest_rate |-> r, payment_deadline_months |-> m] :
              v \in values, r \in rates, m \in terms }
    IN  box((MinValue..MaxValue) \cup {10, 12000000}, {0}, 1..12)
        \cup box(1..20, {2, 3, 4, 5}, {1})
        \cup box(1..10, {12}, {1, 2})
        \cup box(1..20, {600}, 1..6)
        \cup box(1..20, {1200}, 1..10)

InitFee ==
    /\ now = StartDate
    /\ pc = "idle"
    /\ call \in FeeCalls
    /\ outcome = None
    /\ AtRest

\* monthly_payment = calculate_monthly_fee(...) and, unless that raised,
\* total_value_to_pay = calculate_total_value_to_pay(monthly_payment, ...)
ApplyFee ==
    /\ pc = "idle"
    /\ call.fn = "calculate_monthly_fee"
    /\ outcome' =
         Assigned({ [ value |-> monthly_payment,
                      total |-> IF IsExc(monthly_payment) THEN monthly_payment
                                ELSE calculate_total_value_to_pay(
                                         monthly_payment,
                                         call.payment_deadline_months) ]
           : monthly_payment \in
               { calculate_monthly_fee(call.loan_value, call.annual_interest_rate,
                                       call.payment_deadline_months) } })
    /\ pc' = "done"
    /\ UNCHANGED << now, started, call, strategy, chunked, par, pool, results,
                    simulation_results, engine, tiers >>

SpecFee == InitFee /\ [][ApplyFee]_vars

\* the terms of no month and of fewer: the engine takes any integer, only the
\* schemas of the endpoints ask for payment_deadline > 0
NonPositiveTerms == {-2, -1, 0}

\* the engine called directly on such a term: calculate_monthly_fee at the
\* rate 0 and at the rates of the tiers, simulate_loan on the loan values and
\* birth dates of its other calls
InitTerm ==
    /\ now \in Days
    /\ pc = "idle"
    /\ call \in { [fn |-> "calculate_monthly_fee", loan_value |-> v,
                    annual_interest_rate |-> r, payment_deadline_months |-> m] :
                  v \in LoanValues, r \in {0, 2, 3, 4, 5}, m \in NonPositiveTerms }
           \cup { [fn |-> "simulate_loan", loan_value |-> v,
                    birth_date |-> Strptime(BirthDates[k]),
                    payment_deadline_months |-> m] :
                  v \in LoanValues, k \in 1..Len(BirthDates), m \in NonPositiveTerms }
    /\ outcome = None
    /\ AtRest

NextTerm == ApplyFee \/ ApplySimulate

SpecTerm == InitTerm /\ [][NextTerm]_vars

\* the unrounded total_value_to_pay of the simulate_loan call in progress
UnroundedTotal ==
    calculate_total_value_to_pay(
        calculate_monthly_fee(call.loan_value, outcome.value.annual_interest_rate,
                              call.payment_deadline_months),
        call.payment_deadline_months)

\* round(total_value_to_pay, 2) - loan_value of the result, in mills
RoundedTotalLessPrincipal ==
    10 * outcome.value.total_value_to_pay - call.loan_value

CallDays == { d \in Days : NotAfter(started, d) /\ NotAfter(d, now) }

\* the simulations of request j that the call in progress can compute
SimulationsOf(j) == { process_single_simulation(d, Sim(j)) : d \in CallDays }

\* the call in progress has ended with a 200 response of the batch endpoint
BatchOk == pc = "done" /\ call.entry = "batch" /\ outcome.status = 200

\* the call in progress, a direct call of the dispatcher, has returned
DirectReturned ==
    pc = "done" /\ call.entry \in {"parallel", "chunked"} /\ outcome.status = "returned"

\* the call in progress, a direct call of the dispatcher, has raised
DirectRaised ==
    pc = "done" /\ call.entry \in {"parallel", "chunked"} /\ outcome.status = "raised"

\* some task of the map in progress has finished before an earlier one
OutOfOrder ==
    /\ pc = "map"
    /\ \E t \in pool.done : \E u \in 1..(t - 1) : u \notin pool.done

\* C1: under every strategy, result i of a batch is the simulation of
\* request i, whatever the order in which the workers finish their tasks:
\* every response item and every returned item is a simulation of the request
\* at the same index, and while a map runs every result that has arrived
\* sits at the index of its own request.
C1_ResultOrder ==
    /\ BatchOk =>
          /\ DOMAIN outcome.results = 1..NSims
          /\ \A i \in 1..NSims :
                \E s \in SimulationsOf(i) :
                    ~IsExc(s) /\ outcome.results[i] = ResponseItem(s)
    /\ DirectReturned =>
          /\ DOMAIN outcome.results = 1..NSims
          /\ \A i \in 1..NSims : outcome.results[i] \in SimulationsOf(i)
    /\ pc = "map" =>
          \A j \in 1..par.len :
              pool.value[j] # Pending =>
                  /\ pool.value[j].loan_value = ParSim(j).value
                  /\ pool.value[j].payment_deadline_months = ParSim(j).payment_deadline

\* a chunk of the chunked strategy whose tasks finish out of order, with
\* every result that has arrived at the index of its request
C1_Witness ==
    /\ OutOfOrder
    /\ call.entry = "batch"
    /\ strategy = "parallel_chunked"
    /\ par.lo > 0
    /\ \A j \in 1..par.len :
          pool.value[j] # Pending => pool.value[j] \in SimulationsOf(par.lo + j)

\* C2: a batch call on N requests returns exactly N results, one per request,
\* or fails with no results at all: a 200 response and a returned list hold N
\* items, any other response and a raised exception hold none, and the chunked
\* loop has gathered exactly the requests it has passed.
C2_AllOrNothing ==
    /\ (pc = "done" /\ call.entry = "batch") =>
          IF outcome.status = 200
          THEN /\ Len(outcome.results) = NSims
               /\ outcome.summary.total_simulations = NSims
          ELSE "results" \notin DOMAIN outcome
    /\ DirectReturned =>
          /\ Len(outcome.results) = NSims
          /\ \A i \in 1..Len(outcome.results) :
                outcome.results[i].loan_value = Sim(i).value
    /\ DirectRaised => "results" \notin DOMAIN outcome
    /\ (pc = "chunk_loop") =>
          Len(chunked.all_results) = Min(chunked.i, NSims)

\* a chunked call whose first chunk succeeded and whose second chunk raised
\* ends with the exception and no results
C2_Witness ==
    /\ DirectRaised
    /\ call.entry = "chunked"
    /\ call.payload.at > call.chunk_size

\* the step being taken ends the call in progress with a failure
Fails ==
    /\ pc' = "done"
    /\ IF call.entry = "batch" THEN outcome'.status = 500
       ELSE outcome'.status = "raised"

\* the list that simulate_batch_parallel hands back in the step being taken
Handed ==
    IF chunked # None
    THEN SubSeq(chunked'.all_results, Len(chunked.all_results) + 1,
                Len(chunked'.all_results))
    ELSE IF call.entry = "batch" THEN simulation_results'
    ELSE outcome'.results

\* C7: a failure of the pool is never surfaced and the sequential pass that
\* follows it hands back the results of a failure-free run: no step taken
\* while the pool is created or the map runs ends the call with a failure, and
\* the step that leaves the sequential pass of the except clause either hands
\* back, in input order, one simulation for every request of the same list
\* (keeping the results of the chunks before it) or fails on a request that
\* itself raises.
C7_FallbackRecovers ==
    [][ /\ (pc \in {"pool_create", "map"}) => ~Fails
        /\ (pc = "fallback" /\ pc' # "fallback") =>
              IF Fails
              THEN IsExc(process_single_simulation(now, ParSim(Len(results) + 1)))
              ELSE /\ Len(Handed) = par.len
                   /\ \A j \in 1..par.len : Handed[j] \in SimulationsOf(par.lo + j)
                   /\ chunked # None =>
                         SubSeq(chunked'.all_results, 1, Len(chunked.all_results))
                             = chunked.all_results
      ]_vars

\* the sequential pass of the except clause is about to hand back a later
\* chunk of a batch of the chunked strategy, after the pool failed on a list
\* whose requests all compute
C7_Witness ==
    /\ pc = "fallback"
    /\ call.entry = "batch"
    /\ chunked # None
    /\ par.lo > 0
    /\ Len(results) = par.len - 1
    /\ \A j \in 1..par.len : ~IsExc(process_single_simulation(now, ParSim(j)))

\* ------------------------------------------------------------------------
\* Properties of the endpoints
\* ------------------------------------------------------------------------

\* the call in progress is a request to one of the two endpoints
AtEndpoint == pc # "idle" /\ call.entry \in {"batch", "single"}

\* item has every field, a value above 0, a whole payment deadline of at
\* least 1 and a date of birth that strptime parses to a calendar date
Computable(item) ==
    /\ item.value.t \in {"number", "integer"}
    /\ item.value.v > 0
    /\ item.payment_deadline.t = "integer"
    /\ item.payment_deadline.v >= 1
    /\ item.date_of_birth.t = "string"
    /\ ~IsExc(Strptime(item.date_of_birth.s))

\* item is computable and its date of birth is written DD-MM-YYYY
WellFormed(item) ==
    /\ Computable(item)
    /\ item.date_of_birth.s.fmt = "DD-MM-YYYY"

\* the payload of the request in progress holds well-formed items only, and
\* between 1 and 10000 of them
PayloadWellFormed ==
    IF call.entry = "single" THEN WellFormed(SingleItem(call.payload))
    ELSE /\ call.payload.n >= 1
         /\ call.payload.n <= 10000
         /\ \A j \in 1..call.payload.n : WellFormed(RawItem(call.payload, j))

\* the payload of the request in progress holds computable items only, and
\* between 1 and 10000 of them
PayloadComputable ==
    IF call.entry = "single" THEN Computable(SingleItem(call.payload))
    ELSE /\ call.payload.n >= 1
         /\ call.payload.n <= 10000
         /\ \A j \in 1..call.payload.n : Computable(RawItem(call.payload, j))

\* C8 (as stated): on both endpoints a payload that fails validation is
\* answered with a 400 and never with a 500.
C8_InvalidPayloadIs400 ==
    (AtEndpoint /\ pc = "done" /\ ~PayloadWellFormed) => outcome.status = 400

\* C9: through either endpoint the engine never runs on unvalidated input:
\* simulate_loan is never called with a value <= 0 or a payment deadline
\* below 1, a request with an item that lacks a field, a positive value, a
\* whole payment deadline of at least 1 or a parseable date of birth ends
\* before any item is computed and without a 200, and the dispatcher only
\* runs on batches of 1 to 10000 items.
C9_EngineOnValidatedInput ==
    AtEndpoint =>
        /\ engine # "invalid"
        /\ ~PayloadComputable =>
              /\ engine = "unused"
              /\ pc = "done"
              /\ outcome.status # 200
        /\ (par # None \/ chunked # None) => (NSims >= 1 /\ NSims <= 10000)

\* a batch of 21 items whose last item names the 32nd of January is refused
\* with no item computed
C9_Witness ==
    /\ pc = "done"
    /\ call.entry = "batch"
    /\ call.payload = Batch(21, "date_day32", 21)
    /\ outcome.status = 400
    /\ engine = "unused"

\* two amounts in cents are equal within 0.01
Within(a, b) == Abs(a - b) <= 1

\* C10: for every valid request, the single endpoint and the batch endpoint
\* called on a one-item batch holding it return total_value_to_pay,
\* monthly_payment_amount and total_interest that are equal within 0.01: the
\* item of a 200 response to a one-item batch agrees with the 200 response
\* the handler of the single endpoint gives for the same item on a day of
\* the call.
C10_SingleMatchesBatchOfOne ==
    (BatchOk /\ NSims = 1) =>
        \E d \in CallDays :
            LET single == SinglePostBody(d, RawItem(call.payload, 1))
                batch  == outcome.results[1]
            IN  /\ single.status = 200
                /\ Within(single.result.total_value_to_pay, batch.total_value_to_pay)
                /\ Within(single.result.monthly_payment_amount,
                          batch.monthly_payment_amount)
                /\ Within(single.result.total_interest, batch.total_interest)

\* a one-item batch with a payment deadline of one month has been answered
C10_Witness ==
    /\ BatchOk
    /\ call.payload = Batch(1, "deadline_one", 1)
    /\ outcome.results[1].monthly_payment_amount
           = SinglePostBody(now, RawItem(call.payload, 1)).result.monthly_payment_amount

\* ------------------------------------------------------------------------
\* Properties of the dispatcher and of the engine
\* ------------------------------------------------------------------------

\* the call in progress is a direct call of the dispatcher that has ended
DirectDone == pc = "done" /\ call.entry \in {"parallel", "chunked"}

\* the requests of the call in progress that raise on day d
Raising(d) ==
    { j \in 1..NSims : IsExc(process_single_simulation(d, Sim(j))) }

\* the smallest element of a non-empty set of numbers
Least(S) == CHOOSE j \in S : \A k \in S : j <= k

\* [_process_single_simulation(sim) for sim in simulations] on day d: the
\* list of the results, or the exception of the first request that raises
OneAtATime(d) ==
    IF Raising(d) = {}
    THEN [ status |-> "returned",
           results |-> [j \in 1..NSims |-> process_single_simulation(d, Sim(j))] ]
    ELSE [ status |-> "raised",
           exc |-> process_single_simulation(d, Sim(Least(Raising(d)))).exc ]

\* C11: for every list, chunk size and number of workers,
\* simulate_batch_parallel and simulate_batch_chunked_parallel end as the
\* application of _process_single_simulation to one item after the other
\* ends: on a call within one day with the same list of results or the same
\* exception, and on a call across midnight with a result for every item
\* that is its simulation on a day of the call.
C11_SameAsOneAtATime ==
    DirectDone =>
        /\ started = now => outcome = OneAtATime(now)
        /\ outcome.status = "returned" =>
              /\ Len(outcome.results) = NSims
              /\ \A i \in 1..NSims : outcome.results[i] \in SimulationsOf(i)
        /\ outcome.status = "raised" => \A d \in CallDays : Raising(d) # {}

\* a chunked call on 45 items in chunks of 21 with 3 workers has returned
\* within one day
C11_Witness ==
    /\ DirectDone
    /\ call.entry = "chunked"
    /\ call.chunk_size = 21
    /\ call.max_workers = 3
    /\ started = now
    /\ outcome.status = "returned"
    /\ outcome = OneAtATime(now)

\* what the call in progress answers when it runs within day d, as a
\* function of its arguments and of d alone
AnswerOn(d) ==
    IF call.entry = "single"
    THEN IF ~RestxSingleOk(SingleItem(call.payload)) THEN Response400
         ELSE SinglePostBody(d, SingleItem(call.payload))
    ELSE IF call.entry = "batch"
    THEN IF ~RestxBatchOk(call.payload) \/ ~BatchSchemaOk(call.payload)
         THEN Response400
         ELSE IF OneAtATime(d).status = "raised" THEN Response500
         ELSE Response200(OneAtATime(d).results)
    ELSE OneAtATime(d)

\* C12: simulate is deterministic and stateless: a call that runs within one
\* day answers what its arguments and that day determine, whatever calls
\* came before it and however its workers were scheduled, and between two
\* calls nothing of the earlier call is left.
C12_Stateless ==
    /\ (pc = "done" /\ started = now) => outcome = AnswerOn(now)
    /\ pc = "idle" =>
          /\ call = None /\ outcome = None /\ strategy = "none"
          /\ chunked = None /\ par = None /\ pool = None
          /\ results = << >> /\ simulation_results = << >>

\* a batch of 20 items, received and answered on the second day of the clock
C12_Witness ==
    /\ BatchOk
    /\ NSims = 20
    /\ started = LastDate
    /\ outcome = AnswerOn(now)

\* f[1] + ... + f[k]
RECURSIVE SumUpTo(_, _)
SumUpTo(f, k) == IF k = 0 THEN 0 ELSE f[k] + SumUpTo(f, k - 1)

\* c cents is the mean of n amounts whose sum is total mills, rounded to 2
\* decimals: no number of cents is nearer, and of two that are equally near
\* it is the even one
IsRoundedMean(c, total, n) ==
    /\ 2 * Abs(10 * c * n - total) <= 10 * n
    /\ 2 * Abs(10 * c * n - total) = 10 * n => c % 2 = 0

\* the loan values of the request in progress, in mills
InputValues == [j \in 1..NSims |-> Sim(j).value]

\* the monthly payments of the response, in mills
ReturnedPayments ==
    [j \in 1..Len(outcome.results) |-> 10 * outcome.results[j].monthly_payment_amount]

\* C13: the summary of a successful batch call on N items has
\* total_simulations equal to N and to the number of results,
\* average_loan_value equal to the mean of the N input loan values rounded
\* to 2 decimals and average_monthly_payment equal to the mean of the N
\* returned monthly payments rounded to 2 decimals.
C13_Summary ==
    BatchOk =>
        /\ outcome.summary.total_simulations = NSims
        /\ outcome.summary.total_simulations = Len(outcome.results)
        /\ IsRoundedMean(outcome.summary.average_loan_value,
                         SumUpTo(InputValues, NSims), NSims)
        /\ IsRoundedMean(outcome.summary.average_monthly_payment,
                         SumUpTo(ReturnedPayments, NSims), NSims)

\* a batch of the chunked strategy whose two means are not whole numbers of
\* cents has been answered
C13_Witness ==
    /\ BatchOk
    /\ strategy = "parallel_chunked"
    /\ SumUpTo(InputValues, NSims) % (10 * NSims) # 0
    /\ SumUpTo(ReturnedPayments, NSims) % (10 * NSims) # 0

\* a call is in progress and has not ended
Running == pc \notin {"idle", "done"}

\* simulate_loan raises on the item: its term is beyond the floats
RaisingItem(item) ==
    /\ item.payment_deadline.t = "integer"
    /\ item.payment_deadline.v > FloatMax

\* the payload of the batch request in progress has an item on which
\* simulate_loan raises
HasRaisingItem ==
    \E j \in 1..call.payload.n : RaisingItem(RawItem(call.payload, j))

\* C14 (as stated): with workers that keep finishing their tasks, every
\* batch call on validated items eventually ends with all its results, under
\* every strategy, by the pool or by the sequential pass after a pool
\* failure.
C14_EndsWithAllResults ==
    Running ~> (pc = "done" /\ (call.entry = "batch" => outcome.status = 200))

\* C14 (amended): with workers that keep finishing their tasks, every call
\* eventually ends, under every strategy: a request to the batch endpoint is
\* answered with all its results, by the pool or by the sequential pass
\* after a pool failure, or with a 500 when simulate_loan raises on one of
\* its validated items, and a direct call of the dispatcher returns or
\* raises; no call stays forever with a worker or a chunk.
C14_EveryCallEnds ==
    Running ~> /\ pc = "done"
               /\ call.entry = "batch"
                    => outcome.status = IF HasRaisingItem THEN 500 ELSE 200

\* the last chunk but one of a batch of the chunked strategy is with the
\* pool, every task of it still open
C14_Witness ==
    /\ pc = "map"
    /\ call.entry = "batch"
    /\ strategy = "parallel_chunked"
    /\ par.lo + par.len = 500
    /\ pool.done = {}



\* ------------------------------------------------------------------------
\* Properties of the payment formula
\* ------------------------------------------------------------------------

FeeDone == pc = "done" /\ call.fn = "calculate_monthly_fee"

\* C15: with an annual rate of 0 and a term of at least one month,
\* calculate_monthly_fee returns the principal divided by the term and
\* raises nothing, the quotient of the amortization formula (whose
\* denominator is 0 at that rate) not being evaluated; 12000 over 12 months
\* gives 1000 a month and 12000 in total.
C15_ZeroRateIsPlainDivision ==
    (FeeDone /\ call.annual_interest_rate = 0 /\ call.payment_deadline_months >= 1)
    => /\ ~IsExc(outcome.value)
       /\ outcome.value.n * call.payment_deadline_months
            = call.loan_value * outcome.value.d
       /\ (call.loan_value = 12000000 /\ call.payment_deadline_months = 12)
            => /\ outcome.value.n = 1000000 * outcome.value.d
               /\ outcome.total.n = 12000000 * outcome.total.d

\* 12000 over 12 months at a zero rate has been computed
C15_Witness ==
    /\ FeeDone
    /\ call.annual_interest_rate = 0
    /\ call.loan_value = 12000000
    /\ call.payment_deadline_months = 12
    /\ ~IsExc(outcome.value)

\* the payment P = f.n / f.d satisfies P * (1 - (1 + r)^(-months)) =
\* principal * r, for the monthly rate r = rate / 1200
IsAnnuity(f, principal, rate, months) ==
    LET g  == GCD(rate, 1200)
        rn == rate \div g
        rd == 1200 \div g
        up == Pow(rd + rn, months)
        dn == Pow(rd, months)
    IN  f.n * rd * (up - dn) = principal * rn * up * f.d

\* what is owed after k payments of f.n / f.d, each following a month of
\* interest at rn / rd on the balance, as a multiple of 1 / (f.d * rd^k)
RECURSIVE Owed(_, _, _, _, _)
Owed(k, f, principal, rn, rd) ==
    IF k = 0 THEN principal * f.d
    ELSE Owed(k - 1, f, principal, rn, rd) * (rd + rn) - f.n * Pow(rd, k)

WorkerCap ==
    [ parallel_small |-> 4, parallel_medium |-> 6, parallel_chunked |-> 8 ]

\* C17: whenever the batch endpoint runs a list on a pool, the pool has
\* min(number of items given to it, number of CPU cores, cap of the
\* strategy) workers, so never more workers than cores or than items.
C17_PoolSizeIsMin ==
    (pc = "map" /\ call.entry = "batch")
    => pool.processes = Min(Min(par.len, CpuCount), WorkerCap[strategy])



\* the batch request in progress passed validation and simulate_loan raises
\* on one of its items
ValidButRaising ==
    /\ call.entry = "batch"
    /\ PayloadWellFormed
    /\ HasRaisingItem

\* C18: when simulate_loan raises on an item of a validated batch, the
\* batch endpoint answers 500 with the message "Internal server error" and
\* no results at all, under the sequential, the parallel and the chunked
\* strategy alike; the failing item is never left out of a 200 response.
C18_ItemFailureIs500 ==
    (pc = "done" /\ ValidButRaising)
    => /\ outcome.status = 500
       /\ outcome.message = "Internal server error"
       /\ DOMAIN outcome = {"status", "message"}

\* a batch of the chunked strategy whose failing item lies in the second
\* chunk has been answered
C18_Witness ==
    /\ pc = "done"
    /\ ValidButRaising
    /\ strategy = "parallel_chunked"
    /\ call.payload.at > 100



\* res holds one result for each of the first Len(res) requests, in the
\* order of the requests (the generated requests differ in their values)
InInputOrder(res) ==
    \A j \in 1..Len(res) : res[j].loan_value = Sim(j).value

\* C20: simulate_batch_chunked_parallel on N items with chunk size c cuts
\* the list into ceil(N / c) chunks, chunk k being the items from k * c up
\* to, and without, min((k + 1) * c, N): each chunk starts where the one
\* before ended, so the chunks are disjoint and cover every item once, and
\* the results of the chunks are joined in the order of the chunks.
C20_ChunksTileTheList ==
    /\ chunked # None
        => LET c == chunked.chunk_size
               N == NSims
           IN  /\ chunked.i % c = 0
               /\ chunked.i <= c * ((N + c - 1) \div c)
               /\ Len(chunked.all_results) = Min(chunked.i, N)
               /\ InInputOrder(chunked.all_results)
               /\ par # None
                    => /\ par.lo = chunked.i
                       /\ par.lo < N
                       /\ par.len = Min(c, N - par.lo)
    /\ (DirectReturned /\ call.entry = "chunked")
        => /\ Len(outcome.results) = NSims
           /\ InInputOrder(outcome.results)

\* the third and last chunk of a list of 45 items cut by 21 is in progress:
\* items 42 to 44
C20_Witness ==
    /\ chunked # None
    /\ par # None
    /\ call.entry = "chunked"
    /\ chunked.chunk_size = 21
    /\ par.lo = 42
    /\ par.len = 3
    /\ Len(chunked.all_results) = 42

\* ------------------------------------------------------------------------
\* Properties of the rounded figures
\* ------------------------------------------------------------------------

\* simulate_loan has returned a result
SimulateReturned ==
    pc = "done" /\ call.fn = "simulate_loan" /\ ~IsExc(outcome.value)

\* the payment of the call, before rounding, in mills
UnroundedPayment ==
    calculate_monthly_fee(call.loan_value, outcome.value.annual_interest_rate,
                          call.payment_deadline_months)

\* the interest of the call, before rounding, in mills
UnroundedInterest ==
    Interest(calculate_total_value_to_pay(UnroundedPayment,
                                          call.payment_deadline_months),
             call.loan_value)

\* C19 (as stated): for a value above 0 and a term of at least one month,
\* in every age tier, the rounded figures simulate_loan returns are a
\* monthly payment above 0, a total above the value and an interest above 0.
C19_RoundedFiguresPositive ==
    SimulateReturned
    => /\ outcome.value.monthly_payment > 0
       /\ 10 * outcome.value.total_value_to_pay > call.loan_value
       /\ outcome.value.total_interest > 0

\* C19 (amended): for a value above 0 and a term of at least one month, in
\* every age tier, the rounded figures are a monthly payment and an interest
\* of at least 0 and a total of at least the value less half a cent; the
\* monthly payment is above 0 when the unrounded payment is above half a
\* cent, and the interest is above 0 and the total above the value when the
\* unrounded interest is above half a cent.
C19_RoundedFiguresBounds ==
    SimulateReturned
    => /\ outcome.value.monthly_payment >= 0
       /\ outcome.value.total_interest >= 0
       /\ 10 * outcome.value.total_value_to_pay + 5 >= call.loan_value
       /\ UnroundedPayment.n > 5 * UnroundedPayment.d
            => outcome.value.monthly_payment > 0
       /\ UnroundedInterest.n > 5 * UnroundedInterest.d
            => /\ outcome.value.total_interest > 0
               /\ 10 * outcome.value.total_value_to_pay > call.loan_value

\* a loan whose interest, above half a cent, is returned as one cent
C19_Witness ==
    /\ SimulateReturned
    /\ UnroundedInterest.n > 5 * UnroundedInterest.d
    /\ outcome.value.total_interest = 1
    /\ call.payment_deadline_months = 2

\* ------------------------------------------------------------------------
\* Properties of the paths of the dispatcher
\* ------------------------------------------------------------------------

\* a chunk of the chunked strategy is being computed
ChunkInProgress ==
    /\ chunked # None
    /\ par # None
    /\ pc \in {"comprehension", "pool_create", "map", "fallback"}

C22_SmallBatchesSequential ==
    /\ (pc # "idle" /\ call.entry = "batch" /\ NSims <= 20)
        => /\ pool = None
           /\ par = None
           /\ chunked = None
           /\ pc \in {"view_loop", "transform", "done"}
           /\ pc = "view_loop" => Len(results) < NSims /\ InInputOrder(results)
    /\ (par # None /\ par.len <= 20)
        => /\ pool = None
           /\ pc \in {"parallel_entry", "comprehension"}
           /\ pc = "comprehension"
                => /\ Len(results) < par.len
                   /\ \A j \in 1..Len(results) :
                        results[j].loan_value = ParSim(j).value

\* the endpoint has computed 19 of the 20 items of a batch in its loop
C22_Witness ==
    /\ pc = "view_loop"
    /\ call.entry = "batch"
    /\ NSims = 20
    /\ Len(results) = 19
    /\ pool = None

\* ------------------------------------------------------------------------
\* Properties of the ages outside the bands
\* ------------------------------------------------------------------------

\* C23: get_interest_rate_by_age returns 0.04 for every age outside the
\* bands, from 1000 on and below 0; a birth date after the reference date,
\* which nothing forbids, gives such a negative age; every age gets one of
\* the four rates, none makes the lookup fail or return nothing.
C23_DefaultRateOutsideBands ==
    (pc = "done" /\ call.fn = "rate_of_birth")
    => /\ outcome.value \in {2, 3, 4, 5}
       /\ outcome.age \notin 0..999 => outcome.value = 4
       /\ ~NotAfter(call.birth_date, now) => outcome.age < 0
       /\ call.birth_date.year <= now.year - 1001 => outcome.age >= 1000

\* the rate of someone born after the reference date has been looked up
C23_Witness ==
    /\ pc = "done"
    /\ call.fn = "rate_of_birth"
    /\ call.birth_date = Date(2030, 6, 15)
    /\ outcome.age < 0
    /\ outcome.value = 4

\* ------------------------------------------------------------------------
\* Properties of the terms of no month and of fewer
\* ------------------------------------------------------------------------

\* C24: for a term of 0 months and for every negative term,
\* calculate_monthly_fee and simulate_loan raise an error and return no
\* value.
C24_NonPositiveTermRaises ==
    (pc = "done" /\ call.payment_deadline_months <= 0) => IsExc(outcome.value)

\* ------------------------------------------------------------------------
\* Properties of the fields of a result
\* ------------------------------------------------------------------------

\* the returned total_interest less (total_value_to_pay - loan_value), in
\* mills
InterestLessDifference ==
    10 * outcome.value.total_interest
      - (10 * outcome.value.total_value_to_pay - outcome.value.loan_value)

\* C25: in every result of simulate_loan the interest differs from the total
\* less the loan value by less than 0.01, the monthly payment, the total and
\* the interest are whole numbers of cents (at most 2 decimal places), and
\* loan_value and payment_deadline_months are the arguments unchanged.
C25_FieldsConsistent ==
    (pc = "done" /\ call.fn = "simulate_loan" /\ ~IsExc(outcome.value))
    => /\ Abs(InterestLessDifference) < 10
       /\ outcome.value.monthly_payment \in Int
       /\ outcome.value.total_value_to_pay \in Int
       /\ outcome.value.total_interest \in Int
       /\ outcome.value.loan_value = call.loan_value
       /\ outcome.value.payment_deadline_months = call.payment_deadline_months

\* a result on a loan value with a third decimal, whose interest is 0.009
\* away from the total less the loan value
C25_Witness ==
    /\ pc = "done"
    /\ call.fn = "simulate_loan"
    /\ ~IsExc(outcome.value)
    /\ call.loan_value % 10 # 0
    /\ outcome.value.loan_value = call.loan_value
    /\ Abs(InterestLessDifference) = 9

\* ------------------------------------------------------------------------
\* Properties of the shared state
\* ------------------------------------------------------------------------

\* a worker has handed in a task of the map in progress
WorkerHandsIn == pc = "map" /\ pc' = "map" /\ pool'.done # pool.done

\* C26: no operation of the engine or the dispatcher writes shared state:
\* INTEREST_RATE_TIERS is the table of the source in every state and no step
\* changes it, no step of a call changes the caller's list of requests, and
\* a worker that hands in a task has filled in the results of its own items,
\* each from its own request, and has left the other results as they were.
C26_NoSharedWrite ==
    /\ [](tiers = INTEREST_RATE_TIERS)
    /\ [][ /\ tiers' = tiers
           /\ (pc # "idle" /\ pc' # "idle") => call' = call
           /\ WorkerHandsIn
                => \E t \in pool'.done \ pool.done :
                     /\ pool'.done = pool.done \cup {t}
                     /\ \A j \in 1..par.len :
                          pool'.value[j] =
                              IF j \in TaskItems(t)
                              THEN process_single_simulation(
                                       now, Load(RawItem(call.payload, par.lo + j)))
                              ELSE pool.value[j] ]_vars

\* the second chunk of a batch of 501 requests is on the pool and two of its
\* tasks are done, the table being the one of the source
C26_Witness ==
    /\ pc = "map"
    /\ call.entry = "batch"
    /\ chunked # None
    /\ chunked.i = 100
    /\ Cardinality(pool.done) = 2
    /\ tiers = INTEREST_RATE_TIERS

\* ------------------------------------------------------------------------
\* Properties of the pools of the chunked strategy
\* ------------------------------------------------------------------------

\* the call in progress, or just ended, is one of the chunked strategy
ChunkedCall ==
    /\ pc # "idle"
    /\ \/ call.entry = "chunked"
       \/ call.entry = "batch" /\ strategy = "parallel_chunked"

\* C27: during a call of the chunked strategy the chunks are processed one
\* after another: the only pool there is belongs to the chunk in progress
\* and has max_workers workers; it is closed when the loop moves to the next
\* chunk, a pool is created only for the chunk the loop is at, and no pool
\* is left when the call has ended, with a result or with an error.
C27_OnePoolAtATime ==
    /\ [](ChunkedCall
          => /\ pool # None
                => /\ pc = "map"
                   /\ chunked # None /\ par # None
                   /\ par.lo = chunked.i
                   /\ pool.processes = chunked.max_workers
             /\ pc \in {"chunk_loop", "parallel_entry", "pool_create",
                        "comprehension", "fallback", "transform", "done"}
                => pool = None)
    /\ [][ ChunkedCall
           => /\ (chunked # None /\ chunked' # None /\ chunked'.i # chunked.i)
                 => /\ pool' = None
                    /\ chunked'.i = chunked.i + chunked.chunk_size
              /\ (pool = None /\ pool' # None)
                 => pc = "pool_create" /\ par.lo = chunked.i
              /\ pc' \in {"done", "idle"} => pool' = None ]_vars

\* the loop of a batch of 501 requests is at its third chunk: the pools of
\* the first two are closed and the third is not yet created
C27_Witness ==
    /\ pc = "chunk_loop"
    /\ call.entry = "batch"
    /\ strategy = "parallel_chunked"
    /\ chunked.i = 200
    /\ Len(chunked.all_results) = 200
    /\ pool = None

\* ------------------------------------------------------------------------
\* Properties of the reference date
\* ------------------------------------------------------------------------

\* C28: two items of one batch with the same date_of_birth get the same
\* customer_age and the same annual rate, whichever strategy runs and
\* however long the batch takes.
C28_SameBirthDateSameAge ==
    (pc = "transform" /\ call.entry = "batch")
    => \A i, j \in 1..Len(simulation_results) :
          Sim(i).date_of_birth = Sim(j).date_of_birth
          => /\ simulation_results[i].customer_age = simulation_results[j].customer_age
             /\ simulation_results[i].annual_interest_rate
                    = simulation_results[j].annual_interest_rate

\* ------------------------------------------------------------------------
\* Properties of an item that raises in a worker
\* ------------------------------------------------------------------------

\* the exception _process_single_simulation raises on request j of the call
\* in progress, or None: strptime on a date that is no date, the division on
\* a term of 0
RaisedBy(j) ==
    LET item == RawItem(call.payload, j)
    IN  IF item.date_of_birth.s.fmt = "text" THEN "ValueError"
        ELSE IF item.payment_deadline.v = 0 THEN "ZeroDivisionError"
        ELSE "none"

\* the requests of the list given to simulate_batch_parallel that raise
FailingItems == { j \in 1..par.len : RaisedBy(par.lo + j) # "none" }

\* a direct call of simulate_batch_parallel on more than 20 items
LargeParallelCall == pc # "idle" /\ call.entry = "parallel" /\ NSims > 20

\* C29: when an item raises in a worker of simulate_batch_parallel on more
\* than 20 items, the exception is caught like a pool failure and the whole
\* list is run again sequentially from index 0, no result and no exception
\* reaching the caller at that point; the pass raises at the lowest failing
\* index, so the caller gets the exception of that item, the one the
\* sequential path gives, and never a list of results.
C29_WorkerErrorReruns ==
    /\ [][ (LargeParallelCall /\ pc = "map")
           => /\ pc' = "map"
                 => \A t \in pool'.done \ pool.done :
                       TaskItems(t) \cap FailingItems = {}
              /\ (pc' # "map" /\ FailingItems # {})
                 => /\ pc' = "fallback"
                    /\ results' = << >> /\ pool' = None
                    /\ par' = par /\ outcome' = outcome ]_vars
    /\ [](LargeParallelCall
          => /\ (pc = "fallback" /\ FailingItems # {})
                => Len(results) < Least(FailingItems)
             /\ (pc = "done" /\ \E j \in 1..NSims : RaisedBy(j) # "none")
                => /\ outcome.status = "raised"
                   /\ outcome.exc =
                        RaisedBy(Least({ j \in 1..NSims : RaisedBy(j) # "none" })))

\* a call on 21 items, of which item 21 has a date that is no date and item
\* 2 a term of 0, has raised the exception of item 2
C29_Witness ==
    /\ LargeParallelCall
    /\ pc = "done"
    /\ RaisedBy(2) = "ZeroDivisionError"
    /\ RaisedBy(21) = "ValueError"
    /\ outcome.status = "raised"
    /\ outcome.exc = "ZeroDivisionError"

====
